---- MODULE Spec2Model ----
(***************************************************************************)
(* Frozen Gates: the pre-tool-use hook (hooks/pre-tool-use.py), which      *)
(* blocks Write/Edit on frozen paths, and the stop hook (hooks/stop.py),   *)
(* which checks LOC limits on the files a session modified.                *)
(*                                                                         *)
(* Strings that the hooks inspect character by character (paths, glob      *)
(* patterns) are sequences of one-token strings: "/" is the separator,     *)
(* "*" and "?" the glob wildcards, "~" the home marker, "." and ".." the   *)
(* directory links; every other token stands for a run of ordinary         *)
(* characters ("r" a directory name, "-legacy" a name's tail, ".yaml" an   *)
(* extension, ...).                                                        *)
(***************************************************************************)
EXTENDS Integers, Sequences, FiniteSets, TLC

VARIABLES hook_input, config_files, environ, transcripts, worktree, outcome

vars == <<hook_input, config_files, environ, transcripts, worktree, outcome>>

(***************************************************************************)
(* Bounds of the model.                                                    *)
(***************************************************************************)
MaxRepos == 2
MaxRecords == 3
MaxAgents == 2
MaxFileLines == 2

(***************************************************************************)
(* String and path primitives (os.path, fnmatch) as the hooks use them.    *)
(***************************************************************************)
SEP == "/"

\* The process's working directory and the user's home directory.
CWD == <<"/", "r">>
HOME == <<"/", "h">>

startswith(s, prefix) ==
    /\ Len(prefix) <= Len(s)
    /\ SubSeq(s, 1, Len(prefix)) = prefix

\* str.split("/")
RECURSIVE split(_)
split(p) ==
    IF p = <<>> THEN << <<>> >>
    ELSE LET rest == split(Tail(p)) IN
         IF Head(p) = SEP THEN << <<>> >> \o rest
         ELSE << (<<Head(p)>> \o Head(rest)) >> \o Tail(rest)

\* "/".join(comps)
RECURSIVE joincomps(_)
joincomps(comps) ==
    IF comps = <<>> THEN <<>>
    ELSE IF Len(comps) = 1 THEN Head(comps)
    ELSE Head(comps) \o <<SEP>> \o joincomps(Tail(comps))

\* The component loop of posixpath.normpath for a path with initial slashes.
RECURSIVE normcomps(_, _)
normcomps(comps, acc) ==
    IF comps = <<>> THEN acc
    ELSE LET c == Head(comps) IN
         IF c = <<>> \/ c = <<".">> THEN normcomps(Tail(comps), acc)
         ELSE IF c # <<"..">> THEN normcomps(Tail(comps), Append(acc, c))
         ELSE IF acc # <<>> THEN normcomps(Tail(comps), SubSeq(acc, 1, Len(acc) - 1))
         ELSE normcomps(Tail(comps), acc)

\* os.path.join(a, b)
join(a, b) ==
    IF startswith(b, <<SEP>>) THEN b
    ELSE IF a = <<>> \/ a[Len(a)] = SEP THEN a \o b
    ELSE a \o <<SEP>> \o b

\* os.path.abspath(p): join with the working directory unless absolute, then normpath.
abspath(p) ==
    LET q == IF startswith(p, <<SEP>>) THEN p ELSE join(CWD, p)
        slashes == IF startswith(q, <<SEP, SEP>>) /\ ~startswith(q, <<SEP, SEP, SEP>>)
                   THEN <<SEP, SEP>> ELSE <<SEP>>
    IN  slashes \o joincomps(normcomps(split(q), <<>>))

\* os.path.expanduser(p): a leading "~" alone or before "/" becomes the home directory.
expanduser(p) ==
    IF p = <<>> \/ Head(p) # "~" THEN p
    ELSE IF Len(p) = 1 \/ p[2] = SEP THEN HOME \o Tail(p)
    ELSE p

\* fnmatch.fnmatch(name, pat) on POSIX: "*" is the regular expression ".*" and
\* "?" is ".", matched against the whole name; "/" is an ordinary character.
RECURSIVE fnmatch(_, _)
fnmatch(name, pat) ==
    IF pat = <<>> THEN name = <<>>
    ELSE IF Head(pat) = "*"
         THEN fnmatch(name, Tail(pat)) \/ (name # <<>> /\ fnmatch(Tail(name), pat))
    ELSE IF Head(pat) = "?"
         THEN name # <<>> /\ fnmatch(Tail(name), Tail(pat))
    ELSE name # <<>> /\ Head(name) = Head(pat) /\ fnmatch(Tail(name), Tail(pat))

(***************************************************************************)
(* The parsed configuration document (yaml.safe_load of frozengates.yaml). *)
(*   kind: "absent" (no file), "unparseable" (yaml error), "null" (empty   *)
(*   document), "list" (a non-mapping document), "mapping".                *)
(*   repos_kind: "missing", "null" (the key with no value), "mapping".     *)
(***************************************************************************)
DEFAULT_LOC_LIMIT == 500
DEFAULT_LOC_EXTENSIONS == {".ts", ".tsx", ".js", ".jsx", ".py", ".rs", ".go", ".vue"}

NoLoc == [has_limit |-> FALSE, limit |-> 0, has_extensions |-> FALSE,
          extensions |-> {}, exclude |-> <<>>]

Doc(kind, repos_kind, repos, defaults) ==
    [kind |-> kind, repos_kind |-> repos_kind, repos |-> repos, defaults |-> defaults]

AbsentDoc == Doc("absent", "missing", <<>>, NoLoc)
UnparseableDoc == Doc("unparseable", "missing", <<>>, NoLoc)
NullDoc == Doc("null", "missing", <<>>, NoLoc)
ListDoc == Doc("list", "missing", <<>>, NoLoc)
NullReposDoc == Doc("mapping", "null", <<>>, NoLoc)
ReposDoc(repos) == Doc("mapping", "mapping", repos, NoLoc)

Repo(name, path, frozen_all, has_frozen, frozen, loc) ==
    [name |-> name, path |-> path, frozen_all |-> frozen_all,
     has_frozen |-> has_frozen, frozen |-> frozen, loc |-> loc]

\* Python truthiness of the loaded config: None, the empty document and an
\* empty mapping are falsy.
Truthy(config) ==
    \/ config.kind = "list"
    \/ config.kind = "mapping" /\ (config.repos_kind # "missing" \/ config.defaults # NoLoc)

(***************************************************************************)
(* pre-tool-use.py: get_frozen_paths and is_path_frozen.                   *)
(***************************************************************************)
ENTIRE == <<"entire directory">>
NoMatch == [found |-> FALSE, repo |-> "", pattern |-> <<>>]
Match(repo, pattern) == [found |-> TRUE, repo |-> repo, pattern |-> pattern]

\* The entries one repository contributes (the loop body, lines 46-54).
RepoEntries(repo_config) ==
    LET repo_path == expanduser(repo_config.path) IN
    IF repo_path = <<>> THEN <<>>
    ELSE IF repo_config.frozen_all
         THEN << [path |-> repo_path, pattern |-> <<"*", "*", "/", "*">>,
                  repo |-> repo_config.name, full |-> TRUE] >>
    ELSE IF repo_config.has_frozen
         THEN [i \in 1..Len(repo_config.frozen) |->
                  [path |-> repo_path, pattern |-> repo_config.frozen[i],
                   repo |-> repo_config.name, full |-> FALSE]]
    ELSE <<>>

RECURSIVE FlattenRepos(_)
FlattenRepos(repos) ==
    IF repos = <<>> THEN <<>>
    ELSE RepoEntries(Head(repos)) \o FlattenRepos(Tail(repos))

get_frozen_paths(config) ==
    IF ~Truthy(config) \/ config.kind # "mapping" \/ config.repos_kind = "missing"
    THEN <<>>
    ELSE FlattenRepos(config.repos)

\* Line 68 with a plain prefix test, which also takes /repoA-legacy for /repoA.
FullMatchPrefixOnly(file_path, repo_path) ==
    startswith(file_path, repo_path)

\* Line 68: the entire-directory test.
FullMatch(file_path, repo_path) ==
    startswith(file_path, repo_path \o <<SEP>>) \/ file_path = repo_path

\* Line 73: the pattern test.
PatternMatch(file_path, target) ==
    file_path = target \/ fnmatch(file_path, target)

RECURSIVE ScanFrozen(_, _)
ScanFrozen(file_path, frozen_paths) ==
    IF frozen_paths = <<>> THEN NoMatch
    ELSE LET frozen == Head(frozen_paths)
             repo_path == abspath(frozen.path)
         IN  IF frozen.full
             THEN IF FullMatch(file_path, repo_path)
                  THEN Match(frozen.repo, ENTIRE)
                  ELSE ScanFrozen(file_path, Tail(frozen_paths))
             ELSE IF PatternMatch(file_path, join(repo_path, frozen.pattern))
                  THEN Match(frozen.repo, frozen.pattern)
                  ELSE ScanFrozen(file_path, Tail(frozen_paths))

is_path_frozen(file_path, frozen_paths) ==
    ScanFrozen(abspath(expanduser(file_path)), frozen_paths)

(***************************************************************************)
(* stop.py: replay of transcripts.  A transcript is the sequence of its    *)
(* lines; a line is                                                        *)
(*   kind "blank" (empty after strip), "badjson" (json.loads raises        *)
(*   JSONDecodeError), "nonobject" (JSON, but not an object) or "object",  *)
(*   for an object: sessionId (<<>> when absent), message_kind ("missing", *)
(*   "object", "nonobject"), content_kind ("missing", "list", "string",    *)
(*   "null") and the content list's items.                                 *)
(* An item is kind "dict" or "other", with type, name, input_kind          *)
(* ("missing", "object", "nonobject") and the input's file_path (<<>> when *)
(* absent or empty).                                                       *)
(***************************************************************************)
Item(kind, type, name, input_kind, file_path) ==
    [kind |-> kind, type |-> type, name |-> name, input_kind |-> input_kind,
     file_path |-> file_path]

ToolUse(name, file_path) == Item("dict", "tool_use", name, "object", file_path)

Line(kind, sessionId, message_kind, content_kind, content) ==
    [kind |-> kind, sessionId |-> sessionId, message_kind |-> message_kind,
     content_kind |-> content_kind, content |-> content]

BlankLine == Line("blank", <<>>, "missing", "missing", <<>>)
BadJsonLine == Line("badjson", <<>>, "missing", "missing", <<>>)
NonObjectLine == Line("nonobject", <<>>, "missing", "missing", <<>>)
Record(sessionId, content) == Line("object", sessionId, "object", "list", content)

Transcript(exists, readable, lines) ==
    [exists |-> exists, readable |-> readable, lines |-> lines]

Step(modified, raised) == [modified |-> modified, raised |-> raised]

\* Lines 85-91: the items of one content list, until an item raises.
RECURSIVE ProcessItems(_, _)
ProcessItems(content, modified) ==
    IF content = <<>> THEN Step(modified, FALSE)
    ELSE LET item == Head(content) IN
         IF item.kind = "dict" /\ item.type = "tool_use" /\ item.name \in {"Write", "Edit"}
         THEN IF item.input_kind = "nonobject" THEN Step(modified, TRUE)
              ELSE IF item.input_kind = "object" /\ item.file_path # <<>>
                   THEN ProcessItems(Tail(content),
                            modified \cup {abspath(expanduser(item.file_path))})
              ELSE ProcessItems(Tail(content), modified)
         ELSE ProcessItems(Tail(content), modified)

\* Lines 81-91: one line that json.loads accepted.
ProcessEntry(entry, modified) ==
    IF entry.kind # "object" THEN Step(modified, TRUE)
    ELSE IF entry.message_kind = "nonobject" THEN Step(modified, TRUE)
    ELSE IF entry.message_kind = "missing" \/ entry.content_kind \in {"missing", "string"}
         THEN Step(modified, FALSE)
    ELSE IF entry.content_kind = "null" THEN Step(modified, TRUE)
    ELSE ProcessItems(entry.content, modified)

\* The loop of lines 76-93 in which an exception other than JSONDecodeError is
\* swallowed per line, like JSONDecodeError.
RECURSIVE ReplaySkipping(_, _)
ReplaySkipping(lines, modified) ==
    IF lines = <<>> THEN modified
    ELSE IF Head(lines).kind \in {"blank", "badjson"}
         THEN ReplaySkipping(Tail(lines), modified)
    ELSE ReplaySkipping(Tail(lines), ProcessEntry(Head(lines), modified).modified)

\* The loop of lines 76-93: blank lines and JSONDecodeError are skipped, any
\* other exception leaves the loop (the handler of line 94).
RECURSIVE Replay(_, _)
Replay(lines, modified) ==
    IF lines = <<>> THEN modified
    ELSE IF Head(lines).kind \in {"blank", "badjson"}
         THEN Replay(Tail(lines), modified)
    ELSE LET r == ProcessEntry(Head(lines), modified) IN
         IF r.raised THEN r.modified ELSE Replay(Tail(lines), r.modified)

\* transcript_path is the path handed in (<<>> when None), transcript the file there.
extract_modified_from_transcript(transcript_path, transcript) ==
    IF transcript_path = <<>> \/ ~transcript.exists THEN {}
    ELSE IF ~transcript.readable THEN {}
    ELSE Replay(transcript.lines, {})

\* os.path.basename and os.path.dirname
basename(p) == LET comps == split(p) IN comps[Len(comps)]
dirname(p) ==
    LET comps == split(p)
        head == joincomps(SubSeq(comps, 1, Len(comps) - 1))
    IN  IF head = <<>> /\ startswith(p, <<SEP>>) THEN <<SEP>> ELSE head

\* str.replace(old, ""), old a single token
RECURSIVE remove(_, _)
remove(s, old) ==
    IF s = <<>> THEN <<>>
    ELSE IF Head(s) = old THEN remove(Tail(s), old)
    ELSE <<Head(s)>> \o remove(Tail(s), old)

\* Line 122 without the comparison: every readable agent transcript counts.
BelongsAnySession(first_line, session_id) ==
    first_line.kind = "object"

\* Lines 119-122: the first line decides whether the agent transcript is replayed.
BelongsToSession(first_line, session_id) ==
    first_line.kind = "object" /\ first_line.sessionId = session_id

\* Where the agent transcripts of the directory live (the glob of line 115).
AgentIds == <<"1", "2", "3", "4", "5">>
AgentPath(i) == <<"/", "t", "/", "agent-", AgentIds[i], ".jsonl">>

\* Lines 115-125: the loop over the agent-*.jsonl files of the directory.
RECURSIVE ScanAgents(_, _, _, _)
ScanAgents(agents, i, session_id, modified) ==
    IF i > Len(agents) THEN modified
    ELSE LET agent == agents[i] IN
         IF /\ agent.readable
            /\ agent.lines # <<>>
            /\ Head(agent.lines).kind # "blank"
            /\ Head(agent.lines).kind # "badjson"
            /\ BelongsToSession(Head(agent.lines), session_id)
         THEN ScanAgents(agents, i + 1, session_id,
                  modified \cup extract_modified_from_transcript(AgentPath(i), agent))
         ELSE ScanAgents(agents, i + 1, session_id, modified)

\* Lines 100-127 with the files git reports added to the result.
SessionAndGitFiles(transcript_path, ts, wt) ==
    IF transcript_path = <<>> \/ ~ts.primary.exists THEN wt.git_changed
    ELSE ScanAgents(ts.agents, 1, remove(basename(transcript_path), ".jsonl"),
             extract_modified_from_transcript(transcript_path, ts.primary))
         \cup wt.git_changed

\* ts: the transcripts on disk; wt: the working tree, which the function never reads.
get_session_modified_files(transcript_path, ts, wt) ==
    IF transcript_path = <<>> \/ ~ts.primary.exists THEN {}
    ELSE ScanAgents(ts.agents, 1, remove(basename(transcript_path), ".jsonl"),
             extract_modified_from_transcript(transcript_path, ts.primary))

(***************************************************************************)
(* stop.py: LOC policy.  A file of the working tree is                     *)
(* [exists, readable, lines], lines a sequence of "code" and "blank".      *)
(***************************************************************************)
File(exists, readable, lines) == [exists |-> exists, readable |-> readable, lines |-> lines]
MissingFile == File(FALSE, FALSE, <<>>)

\* The one repository git knows on this machine.
GIT_ROOT == <<"/", "r">>

\* find_git_root: git rev-parse --show-toplevel in directory path; None is <<>>.
find_git_root(path, wt) ==
    IF wt.git_ok /\ (path = GIT_ROOT \/ startswith(path, GIT_ROOT \o <<SEP>>))
    THEN GIT_ROOT ELSE <<>>

\* os.path.relpath(path, start) for a path below start.
relpath(path, start) == SubSeq(path, Len(start) + 2, Len(path))

\* The tokens that spell a file extension.
ExtensionTokens == DEFAULT_LOC_EXTENSIONS \cup {".md", ".yaml", ".jsonl"}

\* Path(file_path).suffix
suffix(file_path) ==
    LET name == basename(file_path) IN
    IF Len(name) >= 2 /\ name[Len(name)] \in ExtensionTokens THEN name[Len(name)] ELSE ""

\* count_loc: the lines that are not blank; 0 when the file cannot be read.
RECURSIVE CountCode(_)
CountCode(lines) ==
    IF lines = <<>> THEN 0
    ELSE (IF Head(lines) = "code" THEN 1 ELSE 0) + CountCode(Tail(lines))

count_loc(file) == IF ~file.readable THEN 0 ELSE CountCode(file.lines)

RECURSIVE matches_pattern(_, _)
matches_pattern(filename, patterns) ==
    IF patterns = <<>> THEN FALSE
    ELSE fnmatch(filename, Head(patterns)) \/ matches_pattern(filename, Tail(patterns))

LocConfig(limit, extensions, exclude, repo_name) ==
    [limit |-> limit, extensions |-> extensions, exclude |-> exclude, repo_name |-> repo_name]

\* Lines 45-58: the first repository whose root holds repo_path; repo_name "" is None.
RECURSIVE FirstRepoLoc(_, _, _, _)
FirstRepoLoc(repos, repo_path, default_limit, default_extensions) ==
    IF repos = <<>> THEN LocConfig(default_limit, default_extensions, <<>>, "")
    ELSE LET repo_config == Head(repos)
             rpath == expanduser(repo_config.path)
         IN  IF rpath = <<>>
             THEN FirstRepoLoc(Tail(repos), repo_path, default_limit, default_extensions)
             ELSE IF \/ startswith(repo_path, abspath(rpath) \o <<SEP>>)
                     \/ repo_path = abspath(rpath)
             THEN LocConfig(
                     IF repo_config.loc.has_limit THEN repo_config.loc.limit ELSE default_limit,
                     IF repo_config.loc.has_extensions THEN repo_config.loc.extensions
                     ELSE default_extensions,
                     repo_config.loc.exclude,
                     repo_config.name)
             ELSE FirstRepoLoc(Tail(repos), repo_path, default_limit, default_extensions)

\* get_loc_config raises on a document that is no mapping (config.get) and on
\* a repos key with no mapping under it (.items()).
LocConfigRaises(config) ==
    config.kind # "mapping" \/ config.repos_kind = "null"

get_loc_config(config, repo_path) ==
    LET default_limit == IF config.defaults.has_limit THEN config.defaults.limit
                         ELSE DEFAULT_LOC_LIMIT
        default_extensions == IF config.defaults.has_extensions
                              THEN config.defaults.extensions
                              ELSE DEFAULT_LOC_EXTENSIONS
    IN  IF config.repos_kind = "missing"
        THEN LocConfig(default_limit, default_extensions, <<>>, "")
        ELSE FirstRepoLoc(config.repos, repo_path, default_limit, default_extensions)

\* Line 218 with the comparison off by one.
OverLimitInclusive(loc, limit) == loc >= limit

\* Line 218
OverLimit(loc, limit) == loc > limit

Violation(file_path, rel_path, loc, limit, repo_name) ==
    [file_path |-> file_path, rel_path |-> rel_path, loc |-> loc, limit |-> limit,
     repo_name |-> repo_name]

\* The file at a path of the working tree.
FileAt(wt, file_path) ==
    IF file_path \in DOMAIN wt.files THEN wt.files[file_path] ELSE MissingFile

\* Lines 196-220: the loop body for one modified file; the violations it adds.
CheckFile(file_path, config, wt) ==
    IF ~FileAt(wt, file_path).exists THEN {}
    ELSE LET git_root == find_git_root(dirname(file_path), wt)
             ext == suffix(file_path)
             loc_config == get_loc_config(config, file_path)
             rel_path == IF git_root # <<>> THEN relpath(file_path, git_root) ELSE file_path
             loc == count_loc(FileAt(wt, file_path))
         IN  IF ext \notin loc_config.extensions THEN {}
             ELSE IF matches_pattern(rel_path, loc_config.exclude) THEN {}
             ELSE IF OverLimit(loc, loc_config.limit)
                  THEN {Violation(file_path, rel_path, loc, loc_config.limit,
                                  loc_config.repo_name)}
             ELSE {}

(***************************************************************************)
(* State shared by the specifications: the event on standard input, the    *)
(* configuration files and environment variables, the transcripts, the     *)
(* working tree, and what the last call or hook run produced.              *)
(***************************************************************************)
Event(kind, tool_name, tool_input_kind, file_path, transcript_path) ==
    [kind |-> kind, tool_name |-> tool_name, tool_input_kind |-> tool_input_kind,
     file_path |-> file_path, transcript_path |-> transcript_path]

WriteEvent(file_path) == Event("object", "Write", "object", file_path, <<>>)

DefaultEnviron == [CLAUDE_PROJECT_DIR |-> FALSE, FROZENGATES_CONFIG |-> FALSE,
                   HAS_YAML |-> TRUE]

UserOnly(doc) == [project |-> AbsentDoc, user |-> doc, override |-> AbsentDoc]

NoTranscripts == [primary |-> [exists |-> FALSE, readable |-> TRUE, lines |-> <<>>],
                  agents |-> <<>>]

WorkFiles == { <<"/", "r", "/", "a", ".py">>,
               <<"/", "r", "/", "gen", "/", "b", ".py">>,
               <<"/", "r", "/", "n", ".md">>,
               <<"/", "q", "/", "c", ".py">> }

EmptyWorktree == [files |-> [p \in WorkFiles |-> MissingFile], git_ok |-> TRUE,
                  git_changed |-> {}]

\* op: what ran; stage: where it ended; crashed: an uncaught exception (the
\* interpreter then exits with code 1); stdout: "" or "block" (the decision
\* object); match: is_path_frozen's result; modified: the session's files;
\* violations: the LOC violations reported on standard error.
Outcome(op, stage, exit_code, crashed, stdout, match, modified, violations) ==
    [op |-> op, stage |-> stage, exit_code |-> exit_code, crashed |-> crashed,
     stdout |-> stdout, match |-> match, modified |-> modified,
     violations |-> violations]

NotRun == Outcome("none", "", 0, FALSE, "", NoMatch, {}, {})

(***************************************************************************)
(* pre-tool-use.py: load_config and main.                                  *)
(***************************************************************************)
\* The file FROZENGATES_CONFIG names when set, else ~/.claude/frozengates.yaml;
\* None is NullDoc.
pre_load_config(cf, env) ==
    LET doc == IF env.FROZENGATES_CONFIG THEN cf.override ELSE cf.user IN
    IF doc.kind = "absent" THEN NullDoc
    ELSE IF ~env.HAS_YAML THEN NullDoc
    ELSE IF doc.kind = "unparseable" THEN NullDoc
    ELSE doc

\* get_frozen_paths raises on a repos key with no mapping under it (.items()).
FrozenPathsRaises(config) ==
    config.kind = "mapping" /\ config.repos_kind = "null"

Crash(op, stage) == Outcome(op, stage, 1, TRUE, "", NoMatch, {}, {})
Allow(op, stage) == Outcome(op, stage, 0, FALSE, "", NoMatch, {}, {})

pre_main(e, cf, env) ==
    IF e.kind = "unparseable" THEN Allow("pre-tool-use", "stdin")
    ELSE IF e.kind = "nonobject" THEN Crash("pre-tool-use", "stdin")
    ELSE IF e.tool_name \notin {"Write", "Edit"} THEN Allow("pre-tool-use", "tool")
    ELSE IF e.tool_input_kind = "nonobject" THEN Crash("pre-tool-use", "path")
    ELSE IF e.tool_input_kind = "missing" \/ e.file_path = <<>>
         THEN Allow("pre-tool-use", "path")
    ELSE LET config == pre_load_config(cf, env) IN
         IF ~Truthy(config) THEN Allow("pre-tool-use", "config")
         ELSE IF FrozenPathsRaises(config) THEN Crash("pre-tool-use", "frozen")
         ELSE LET m == is_path_frozen(e.file_path, get_frozen_paths(config)) IN
              IF m.found /\ m.repo # ""
              THEN Outcome("pre-tool-use", "end", 2, FALSE, "block", m, {}, {})
              ELSE Outcome("pre-tool-use", "end", 0, FALSE, "", m, {}, {})

(***************************************************************************)
(* stop.py: load_config and main.                                          *)
(***************************************************************************)
Loaded(raised, config) == [raised |-> raised, config |-> config]

\* $CLAUDE_PROJECT_DIR/.claude/frozengates.yaml when it exists, else
\* ~/.claude/frozengates.yaml; yaml.safe_load's exception is not caught.
stop_load_config(cf, env) ==
    IF env.CLAUDE_PROJECT_DIR /\ cf.project.kind # "absent"
    THEN Loaded(cf.project.kind = "unparseable", cf.project)
    ELSE IF cf.user.kind # "absent"
    THEN Loaded(cf.user.kind = "unparseable", cf.user)
    ELSE Loaded(FALSE, NullDoc)

stop_main(e, cf, env, ts, wt) ==
    IF ~env.HAS_YAML THEN Outcome("stop", "import", 1, FALSE, "", NoMatch, {}, {})
    ELSE IF e.kind = "nonobject" THEN Crash("stop", "stdin")
    ELSE LET transcript_path == IF e.kind = "unparseable" THEN <<>>
                                ELSE expanduser(e.transcript_path)
             loaded == stop_load_config(cf, env)
         IN  IF loaded.raised THEN Crash("stop", "config")
             ELSE IF ~Truthy(loaded.config) THEN Allow("stop", "config")
             ELSE LET modified_files == get_session_modified_files(transcript_path, ts, wt) IN
                  IF modified_files = {} THEN Allow("stop", "changeset")
                  ELSE IF /\ LocConfigRaises(loaded.config)
                          /\ \E f \in modified_files : FileAt(wt, f).exists
                  THEN Outcome("stop", "evaluate", 1, TRUE, "", NoMatch, modified_files, {})
                  ELSE LET violations ==
                               UNION { CheckFile(f, loaded.config, wt) : f \in modified_files }
                       IN  Outcome("stop", "end", IF violations # {} THEN 2 ELSE 0, FALSE,
                                   "", NoMatch, modified_files, violations)

(***************************************************************************)
(* SpecMatch: is_path_frozen(file_path, get_frozen_paths(config)) applied  *)
(* to candidate paths and configurations of up to MaxRepos repositories.   *)
(***************************************************************************)
RepoNames == <<"api", "web", "lib", "ops", "doc">>

MatchRoots == { <<>>, <<"/", "r">>, <<"/", "r", "/", "secrets">>,
                <<"/", "r", "-legacy", "/">>, <<"~">> }

MatchPatterns == { <<"secrets", "/", "*", ".yaml">>,
                   <<"secrets", "/", "prod", ".yaml">>,
                   <<"x">> }

\* What a repository says about freezing: (frozen_all, has_frozen, frozen).
FrozenSpecs ==
    { <<TRUE, FALSE, <<>> >>, <<FALSE, FALSE, <<>> >> }
    \cup { <<FALSE, TRUE, <<s>> >> : s \in MatchPatterns }
    \cup { <<TRUE, TRUE, <<s>> >> : s \in { <<"x">> } }

MatchRepoSeqs ==
    UNION { [1..n -> MatchRoots \X FrozenSpecs] : n \in 0..MaxRepos }

MatchConfig(choice) ==
    ReposDoc([i \in 1..Len(choice) |->
        Repo(RepoNames[i], choice[i][1], choice[i][2][1], choice[i][2][2],
             choice[i][2][3], NoLoc)])

MatchConfigs == { MatchConfig(c) : c \in MatchRepoSeqs }

Candidates ==
    { <<"/", "r">>,
      <<"/", "r", "/">>,
      <<"/", "r", "/", "x">>,
      <<"/", "r", "/", "secrets">>,
      <<"/", "r", "/", "secrets", "/", "prod", ".yaml">>,
      <<"/", "r", "/", "secrets", "/", "sub", "/", "prod", ".yaml">>,
      <<"/", "r", "-legacy">>,
      <<"/", "r", "-legacy", "/", "x">>,
      <<"/", "q", "/", "x">>,
      <<"/", "q", "/", "..", "/", "r", "/", ".", "/", "x">>,
      <<"secrets", "/", "prod", ".yaml">>,
      <<"~", "/", "x">>,
      <<"/", "h">> }

InitMatch ==
    /\ hook_input \in { WriteEvent(p) : p \in Candidates }
    /\ config_files \in { UserOnly(c) : c \in MatchConfigs }
    /\ environ = DefaultEnviron
    /\ transcripts = NoTranscripts
    /\ worktree = EmptyWorktree
    /\ outcome = NotRun

\* One call of is_path_frozen on the frozen list of the configuration.
IsPathFrozenCall ==
    /\ outcome.op = "none"
    /\ outcome' = Outcome("is_path_frozen", "end", 0, FALSE, "",
                     is_path_frozen(hook_input.file_path,
                                    get_frozen_paths(config_files.user)),
                     {}, {})
    /\ UNCHANGED <<hook_input, config_files, environ, transcripts, worktree>>

SpecMatch == InitMatch /\ [][IsPathFrozenCall]_vars

(***************************************************************************)
(* SpecReplay: extract_modified_from_transcript applied to transcripts of  *)
(* up to MaxRecords lines.                                                 *)
(***************************************************************************)
TPath == <<"/", "t", "/", "S1", ".jsonl">>
ThisSession == <<"S1">>
OtherSession == <<"S2">>

FileA == <<"/", "r", "/", "a", ".py">>
FileB == <<"/", "r", "/", "gen", "/", "b", ".py">>
FileN == <<"/", "r", "/", "n", ".md">>
FileC == <<"/", "q", "/", "c", ".py">>

ReplayLines ==
    { BlankLine, BadJsonLine, NonObjectLine,
      Line("object", ThisSession, "nonobject", "missing", <<>>),
      Line("object", ThisSession, "object", "null", <<>>),
      Line("object", ThisSession, "object", "string", <<>>),
      Line("object", ThisSession, "missing", "missing", <<>>),
      Record(ThisSession, <<ToolUse("Write", FileA)>>),
      Record(ThisSession, <<ToolUse("Edit", <<"gen", "/", ".", "/", "b", ".py">>),
                            ToolUse("Read", FileN),
                            Item("other", "", "", "missing", <<>>)>>),
      Record(ThisSession, <<ToolUse("Edit", FileC),
                            Item("dict", "tool_use", "Read", "nonobject", <<>>),
                            Item("dict", "tool_use", "Write", "nonobject", <<>>),
                            ToolUse("Write", FileN)>>),
      Record(ThisSession, <<Item("dict", "text", "", "missing", <<>>),
                            Item("dict", "tool_use", "Write", "missing", <<>>),
                            ToolUse("Write", <<"~", "/", "w", ".py">>)>>) }

ReplayTranscripts ==
    { Transcript(x[1], x[2], lines) :
        x \in { <<TRUE, TRUE>>, <<TRUE, FALSE>>, <<FALSE, FALSE>> },
        lines \in UNION { [1..n -> ReplayLines] : n \in 0..MaxRecords } }

StopEvent(transcript_path) == Event("object", "", "missing", <<>>, transcript_path)

InitReplay ==
    /\ hook_input \in { StopEvent(TPath), StopEvent(<<>>) }
    /\ config_files = UserOnly(AbsentDoc)
    /\ environ = DefaultEnviron
    /\ transcripts \in { [primary |-> t, agents |-> <<>>] : t \in ReplayTranscripts }
    /\ worktree = EmptyWorktree
    /\ outcome = NotRun

\* One call of extract_modified_from_transcript on the primary transcript.
ExtractCall ==
    /\ outcome.op = "none"
    /\ outcome' = Outcome("extract", "end", 0, FALSE, "", NoMatch,
                     extract_modified_from_transcript(hook_input.transcript_path,
                                                      transcripts.primary),
                     {})
    /\ UNCHANGED <<hook_input, config_files, environ, transcripts, worktree>>

SpecReplay == InitReplay /\ [][ExtractCall]_vars

(***************************************************************************)
(* Spec: one run of either hook in an environment drawn from four          *)
(* families: events and configuration files for the pre-tool-use hook;     *)
(* events and configuration files for the stop hook; transcripts of a      *)
(* session with up to MaxAgents agent transcripts; working trees with      *)
(* files of up to MaxFileLines lines under LOC rules.                      *)
(***************************************************************************)
Environs ==
    [CLAUDE_PROJECT_DIR : BOOLEAN, FROZENGATES_CONFIG : BOOLEAN, HAS_YAML : BOOLEAN]

FreezeAllR ==
    ReposDoc(<< Repo("api", <<"/", "r">>, TRUE, FALSE, <<>>, NoLoc) >>)

FreezeSecretsQ ==
    ReposDoc(<< Repo("web", <<"/", "q">>, FALSE, TRUE,
                     << <<"secrets", "/", "*", ".yaml">> >>, NoLoc) >>)

ShapeDocs == { AbsentDoc, UnparseableDoc, NullDoc, ListDoc, NullReposDoc }

PrePaths == { <<"/", "r", "/", "x">>, <<"/", "r", "-legacy", "/", "x">>,
              <<"/", "q", "/", "secrets", "/", "prod", ".yaml">>,
              <<"/", "q", "/", "x">> }

PreEvents ==
    { Event("unparseable", "", "missing", <<>>, <<>>),
      Event("nonobject", "", "missing", <<>>, <<>>) }
    \cup { Event("object", t, k, <<>>, <<>>) :
             t \in {"Write", "Edit", "Bash", ""}, k \in {"missing", "object", "nonobject"} }
    \cup { Event("object", t, "object", p, <<>>) :
             t \in {"Write", "Edit", "Bash", ""}, p \in PrePaths }

InitPre ==
    /\ hook_input \in PreEvents
    /\ config_files \in [project : {AbsentDoc, FreezeAllR, FreezeSecretsQ},
                          user : ShapeDocs \cup {FreezeAllR, FreezeSecretsQ},
                          override : {AbsentDoc, UnparseableDoc, FreezeSecretsQ}]
    /\ environ \in Environs
    /\ transcripts = NoTranscripts
    /\ worktree = EmptyWorktree
    /\ outcome = NotRun

Loc(has_limit, limit, has_extensions, extensions, exclude) ==
    [has_limit |-> has_limit, limit |-> limit, has_extensions |-> has_extensions,
     extensions |-> extensions, exclude |-> exclude]

LocRepo(name, path, loc) == Repo(name, path, FALSE, FALSE, <<>>, loc)

LocDocs ==
    { Doc("mapping", "mapping",
          << LocRepo("api", <<"/", "r">>,
                     Loc(TRUE, 1, TRUE, {".py"}, << <<"gen", "/", "*">> >>)) >>,
          NoLoc),
      Doc("mapping", "missing", <<>>, Loc(TRUE, 1, TRUE, {".py", ".md"}, <<>>)),
      Doc("mapping", "mapping",
          << LocRepo("api", <<"/", "r", "/">>, NoLoc),
             LocRepo("none", <<>>, Loc(TRUE, 0, FALSE, {}, <<>>)) >>,
          Loc(TRUE, 2, TRUE, {".md", ".py"}, <<>>)),
      Doc("mapping", "mapping",
          << LocRepo("gen", <<"/", "r", "/", "gen">>, Loc(TRUE, 2, FALSE, {}, <<>>)),
             LocRepo("api", <<"/", "r">>, Loc(TRUE, 1, FALSE, {}, <<>>)) >>,
          Loc(FALSE, 0, FALSE, {}, <<>>)),
      Doc("mapping", "mapping",
          << LocRepo("ext", <<"/", "q">>,
                     Loc(TRUE, 1, FALSE, {}, << <<"/", "q", "/", "*">> >>)),
             LocRepo("api", <<"/", "r">>,
                     Loc(TRUE, 1, FALSE, {}, << <<"x">>, <<"?", ".py">> >>)) >>,
          NoLoc) }

CodeLines(n) == [i \in 1..n |-> "code"]

TreeOf(files, git_ok, git_changed) ==
    [files |-> files, git_ok |-> git_ok, git_changed |-> git_changed]

\* Every work file present with more code lines than any configured limit but
\* DEFAULT_LOC_LIMIT.
FullTree(git_ok, git_changed) ==
    TreeOf([p \in WorkFiles |-> File(TRUE, TRUE, CodeLines(MaxFileLines + 1))],
           git_ok, git_changed)

\* A primary transcript that writes every work file.
AllFilesTranscripts ==
    [primary |-> Transcript(TRUE, TRUE,
                    << Record(ThisSession, <<ToolUse("Write", FileA), ToolUse("Edit", FileB)>>),
                       Record(ThisSession, <<ToolUse("Write", FileN), ToolUse("Edit", FileC)>>) >>),
     agents |-> <<>>]

StopEvents ==
    { Event("unparseable", "", "missing", <<>>, <<>>),
      Event("nonobject", "", "missing", <<>>, <<>>),
      StopEvent(TPath), StopEvent(<<>>) }

InitStopConfig ==
    /\ hook_input \in StopEvents
    /\ config_files \in [project : ShapeDocs \cup LocDocs,
                          user : {AbsentDoc, UnparseableDoc, ListDoc} \cup LocDocs,
                          override : {AbsentDoc}]
    /\ environ \in { e \in Environs : ~e.FROZENGATES_CONFIG }
    /\ transcripts \in { NoTranscripts, AllFilesTranscripts }
    /\ worktree \in { EmptyWorktree, FullTree(TRUE, {}) }
    /\ outcome = NotRun

SessionLines ==
    { BlankLine, BadJsonLine, NonObjectLine,
      Record(ThisSession, <<ToolUse("Edit", FileB)>>),
      Record(OtherSession, <<ToolUse("Edit", FileN)>>),
      Record(<<>>, <<ToolUse("Write", FileC)>>) }

\* Agent transcripts: a first line, then a record of this session.
AgentTranscripts ==
    { Transcript(TRUE, TRUE, <<first, Record(ThisSession, <<ToolUse("Write", FileC)>>)>>) :
        first \in SessionLines }
    \cup { Transcript(TRUE, TRUE, <<>>),
           Transcript(TRUE, FALSE, <<Record(ThisSession, <<ToolUse("Edit", FileB)>>)>>),
           Transcript(TRUE, TRUE, <<Record(ThisSession, <<ToolUse("Edit", FileN)>>),
                                    NonObjectLine,
                                    Record(ThisSession, <<ToolUse("Edit", FileB)>>)>>) }

PrimaryTranscripts ==
    { Transcript(FALSE, FALSE, <<>>),
      Transcript(TRUE, TRUE, <<>>),
      Transcript(TRUE, TRUE, <<Record(ThisSession, <<ToolUse("Write", FileA)>>)>>),
      Transcript(TRUE, TRUE, <<BadJsonLine,
                               Record(ThisSession, <<ToolUse("Write", FileA)>>),
                               NonObjectLine,
                               Record(ThisSession, <<ToolUse("Write", FileB)>>)>>) }

InitStopChangeSet ==
    /\ hook_input \in { StopEvent(TPath), StopEvent(<<>>) }
    /\ config_files \in { UserOnly(d) : d \in LocDocs }
    /\ environ = DefaultEnviron
    /\ transcripts \in [primary : PrimaryTranscripts,
                         agents : UNION { [1..n -> AgentTranscripts] : n \in 0..MaxAgents }]
    /\ worktree \in { FullTree(TRUE, g) : g \in { {}, {FileN}, {FileA, FileC} } }
    /\ outcome = NotRun

FileContents == UNION { [1..n -> {"code", "blank"}] : n \in 0..MaxFileLines }

FileStates ==
    { MissingFile, File(TRUE, FALSE, CodeLines(MaxFileLines)) }
    \cup { File(TRUE, TRUE, c) : c \in FileContents }

FewFileStates == { MissingFile, File(TRUE, TRUE, CodeLines(MaxFileLines)) }

LocTrees ==
    { TreeOf([p \in WorkFiles |->
                 IF p = FileA THEN a ELSE IF p = FileB THEN b
                 ELSE IF p = FileN THEN n ELSE c],
             git_ok, {}) :
        a \in FileStates, b \in FileStates, n \in FewFileStates, c \in FewFileStates,
        git_ok \in BOOLEAN }

InitStopLoc ==
    /\ hook_input = StopEvent(TPath)
    /\ config_files \in { UserOnly(d) : d \in LocDocs }
    /\ environ = DefaultEnviron
    /\ transcripts = AllFilesTranscripts
    /\ worktree \in LocTrees
    /\ outcome = NotRun

Init == InitPre \/ InitStopConfig \/ InitStopChangeSet \/ InitStopLoc

\* One run of the pre-tool-use hook.
PreToolUseMain ==
    /\ outcome.op = "none"
    /\ outcome' = pre_main(hook_input, config_files, environ)
    /\ UNCHANGED <<hook_input, config_files, environ, transcripts, worktree>>

\* One run of the stop hook.
StopMain ==
    /\ outcome.op = "none"
    /\ outcome' = stop_main(hook_input, config_files, environ, transcripts, worktree)
    /\ UNCHANGED <<hook_input, config_files, environ, transcripts, worktree>>

Next == PreToolUseMain \/ StopMain

Spec == Init /\ [][Next]_vars

(***************************************************************************)
(* Properties of the frozen-path matcher, checked under SpecMatch.         *)
(***************************************************************************)
NormCandidate == abspath(expanduser(hook_input.file_path))

MatchRepos == config_files.user.repos

RootOf(R) == abspath(expanduser(R.path))

\* p is root itself or lies below it: root, a separator, then more.
UnderRoot(p, root) ==
    \/ p = root
    \/ /\ Len(p) > Len(root)
       /\ \A k \in 1..Len(root) : p[k] = root[k]
       /\ p[Len(root) + 1] = SEP

\* Shell-glob matching in which "*" and "?" stay within one path segment.
RECURSIVE globmatch(_, _)
globmatch(name, pat) ==
    IF pat = <<>> THEN name = <<>>
    ELSE IF Head(pat) = "*"
         THEN \/ globmatch(name, Tail(pat))
              \/ name # <<>> /\ Head(name) # SEP /\ globmatch(Tail(name), pat)
    ELSE IF Head(pat) = "?"
         THEN name # <<>> /\ Head(name) # SEP /\ globmatch(Tail(name), Tail(pat))
    ELSE name # <<>> /\ Head(name) = Head(pat) /\ globmatch(Tail(name), Tail(pat))

IsFullRule(R) == R.path # <<>> /\ R.frozen_all
IsPatternRule(R) == R.path # <<>> /\ ~R.frozen_all /\ R.has_frozen

\* Whether rule R, taken alone, stops the scan of is_path_frozen at p.
RuleFires(R, p) ==
    \/ IsFullRule(R) /\ UnderRoot(p, RootOf(R))
    \/ /\ IsPatternRule(R)
       /\ \E k \in 1..Len(R.frozen) :
             LET target == join(RootOf(R), R.frozen[k]) IN
             p = target \/ fnmatch(p, target)

\* C1 (as claimed): for a configuration whose only repository R is
\* pattern-frozen, is_path_frozen matches R iff the candidate equals or
\* glob-matches Root(R)/s for a pattern s of R, "*" never crossing a separator
\* (so /r/secrets/sub/prod.yaml is allowed under secrets/*.yaml).
C1_StarStaysInSegment ==
    (outcome.op = "is_path_frozen" /\ Len(MatchRepos) = 1 /\ IsPatternRule(MatchRepos[1]))
    => LET R == MatchRepos[1] IN
       (outcome.match.found /\ outcome.match.repo = R.name)
       <=> \E k \in 1..Len(R.frozen) :
             LET target == join(RootOf(R), R.frozen[k]) IN
             NormCandidate = target \/ globmatch(NormCandidate, target)

\* C3 (as claimed): every frozen_all repository with a non-empty root is
\* returned with the marker "entire directory" iff the normalized candidate is
\* the root or starts with root + separator, whatever the other repositories.
C3_FullRuleIffUnderRoot ==
    outcome.op = "is_path_frozen"
    => \A i \in 1..Len(MatchRepos) :
         IsFullRule(MatchRepos[i])
         => (outcome.match = Match(MatchRepos[i].name, ENTIRE)
             <=> UnderRoot(NormCandidate, RootOf(MatchRepos[i])))

\* C3 (amended): a frozen_all repository with a non-empty root is returned with
\* the marker "entire directory" iff the normalized candidate is the root or
\* starts with root + separator AND no repository earlier in the configuration
\* matches the candidate (the first match wins); a sibling that only shares a
\* string prefix is never matched, and a repository with an empty root is
\* never returned.
C3_FullRuleIffUnderRootAndFirst ==
    outcome.op = "is_path_frozen"
    => \A i \in 1..Len(MatchRepos) :
         LET R == MatchRepos[i] IN
         /\ IsFullRule(R)
            => (outcome.match = Match(R.name, ENTIRE)
                <=> /\ UnderRoot(NormCandidate, RootOf(R))
                    /\ \A j \in 1..(i - 1) : ~RuleFires(MatchRepos[j], NormCandidate))
         /\ R.path = <<>> => outcome.match.repo # R.name

\* C3 witness: a frozen_all repository that is not the first of the
\* configuration is returned for a candidate strictly below its root, while an
\* earlier frozen_all repository whose root is a string prefix of the candidate
\* (a sibling) is passed over.
C3_Witness ==
    /\ outcome.op = "is_path_frozen"
    /\ \E i \in 2..Len(MatchRepos) :
         /\ IsFullRule(MatchRepos[i])
         /\ outcome.match = Match(MatchRepos[i].name, ENTIRE)
         /\ NormCandidate # RootOf(MatchRepos[i])
         /\ \E j \in 1..(i - 1) :
              /\ IsFullRule(MatchRepos[j])
              /\ startswith(NormCandidate, RootOf(MatchRepos[j]))
              /\ ~UnderRoot(NormCandidate, RootOf(MatchRepos[j]))

(***************************************************************************)
(* Properties of the transcript replay, checked under SpecReplay.          *)
(***************************************************************************)
PrimaryLines == transcripts.primary.lines

PrimaryReplayed ==
    /\ outcome.op = "extract"
    /\ hook_input.transcript_path # <<>>
    /\ transcripts.primary.exists
    /\ transcripts.primary.readable

\* A Write or Edit tool-use entry whose input is present but no object.
ItemMisshaped(item) ==
    /\ item.kind = "dict" /\ item.type = "tool_use"
    /\ item.name \in {"Write", "Edit"}
    /\ item.input_kind = "nonobject"

HasItems(l) == l.kind = "object" /\ l.message_kind = "object" /\ l.content_kind = "list"

\* A line that parses as JSON but does not have the shape the replay reads.
LineMisshaped(l) ==
    \/ l.kind = "nonobject"
    \/ l.kind = "object" /\ l.message_kind = "nonobject"
    \/ l.kind = "object" /\ l.message_kind = "object" /\ l.content_kind = "null"
    \/ HasItems(l) /\ \E k \in 1..Len(l.content) : ItemMisshaped(l.content[k])

LineWellFormed(l) == l.kind = "object" /\ ~LineMisshaped(l)

\* The normalized paths of the Write/Edit entries among the first n items of l.
EntryPaths(l, n) ==
    IF ~HasItems(l) THEN {}
    ELSE { abspath(expanduser(l.content[k].file_path)) :
             k \in { k \in 1..n :
                       /\ l.content[k].kind = "dict"
                       /\ l.content[k].type = "tool_use"
                       /\ l.content[k].name \in {"Write", "Edit"}
                       /\ l.content[k].input_kind = "object"
                       /\ l.content[k].file_path # <<>> } }

AllEntryPaths(l) == EntryPaths(l, Len(l.content))

Least(S) == CHOOSE x \in S : \A y \in S : x <= y

\* The index of the first mis-shaped line (one past the end when there is none).
FirstMisshaped(lines) ==
    LET bad == { i \in 1..Len(lines) : LineMisshaped(lines[i]) } IN
    IF bad = {} THEN Len(lines) + 1 ELSE Least(bad)

\* The entries of l processed before its first mis-shaped item.
PathsBeforeMisshapedItem(l) ==
    IF ~HasItems(l) THEN {}
    ELSE EntryPaths(l, Least({ k \in 1..Len(l.content) : ItemMisshaped(l.content[k]) }) - 1)

ProcessedPaths(lines) ==
    LET fb == FirstMisshaped(lines) IN
    UNION { AllEntryPaths(lines[i]) : i \in 1..(fb - 1) }
    \cup (IF fb <= Len(lines) THEN PathsBeforeMisshapedItem(lines[fb]) ELSE {})

\* C7 (as claimed): replaying a transcript, the path of every Write or Edit
\* entry of every well-formed record is in the result, whatever precedes or
\* follows the record; a missing or unreadable transcript gives the empty set.
C7_EveryWellFormedRecordCounted ==
    outcome.op = "extract"
    => IF PrimaryReplayed
       THEN \A i \in 1..Len(PrimaryLines) :
              LineWellFormed(PrimaryLines[i])
              => AllEntryPaths(PrimaryLines[i]) \subseteq outcome.modified
       ELSE outcome.modified = {}

PreRan == outcome.op = "pre-tool-use"
StopRan == outcome.op = "stop"

\* The stop hook got as far as resolving the session's files.
ChangeSetResolved == StopRan /\ outcome.stage \in {"changeset", "evaluate", "end"}

\* An agent transcript whose first record carries this session's identifier.
AgentOfThisSession(agent) ==
    /\ agent.readable
    /\ agent.lines # <<>>
    /\ Head(agent.lines).kind = "object"
    /\ Head(agent.lines).sessionId = ThisSession

AgentReplay(i) ==
    extract_modified_from_transcript(AgentPath(i), transcripts.agents[i])

PrimaryReplay ==
    extract_modified_from_transcript(hook_input.transcript_path, transcripts.primary)

\* The event-log replay: the primary transcript and the agent transcripts of
\* this session; empty without a primary transcript.
ReplayUnion ==
    IF hook_input.kind # "object" \/ hook_input.transcript_path # TPath
       \/ ~transcripts.primary.exists
    THEN {}
    ELSE PrimaryReplay
         \cup UNION { AgentReplay(i) :
                        i \in { i \in 1..Len(transcripts.agents) :
                                  AgentOfThisSession(transcripts.agents[i]) } }

AgentNamedPaths(agent) == UNION { AllEntryPaths(agent.lines[k]) : k \in 1..Len(agent.lines) }

\* C8: given an existing primary transcript, an agent transcript contributes the
\* paths of its replay iff its first record carries the session identifier of
\* the primary transcript; an agent transcript of another session, or with an
\* empty or unparseable first record, adds no path, and does not keep the other
\* agent transcripts from being processed.
C8_AgentCountsIffSameSession ==
    (ChangeSetResolved /\ hook_input.transcript_path = TPath /\ transcripts.primary.exists)
    => \A i \in 1..Len(transcripts.agents) :
         LET agent == transcripts.agents[i]
             others == PrimaryReplay
                       \cup UNION { AgentReplay(j) :
                                      j \in { j \in 1..Len(transcripts.agents) :
                                                /\ j # i
                                                /\ AgentOfThisSession(transcripts.agents[j]) } }
         IN  IF AgentOfThisSession(agent)
             THEN AgentReplay(i) \subseteq outcome.modified
             ELSE \A p \in AgentNamedPaths(agent) : p \notin others => p \notin outcome.modified

\* C8 witness: an agent transcript of another session, naming a path that stays
\* out, is followed by an agent transcript of this session whose path is in.
C8_Witness ==
    /\ ChangeSetResolved /\ hook_input.transcript_path = TPath /\ transcripts.primary.exists
    /\ \E i, j \in 1..Len(transcripts.agents) :
         /\ i < j
         /\ transcripts.agents[i].lines # <<>>
         /\ Head(transcripts.agents[i].lines).sessionId = OtherSession
         /\ \E p \in AgentNamedPaths(transcripts.agents[i]) : p \notin outcome.modified
         /\ AgentOfThisSession(transcripts.agents[j])
         /\ AgentReplay(j) # {}
         /\ AgentReplay(j) \subseteq outcome.modified
         /\ AgentReplay(j) \cap PrimaryReplay = {}

\* The configuration file the stop hook resolves.
StopDoc ==
    IF environ.CLAUDE_PROJECT_DIR /\ config_files.project.kind # "absent"
    THEN config_files.project ELSE config_files.user

\* The first repository of the configuration whose root holds f (0: none).
ResolvedRepo(config, f) ==
    LET holding == { i \in 1..Len(config.repos) :
                       /\ config.repos[i].path # <<>>
                       /\ UnderRoot(f, RootOf(config.repos[i])) }
    IN  IF holding = {} THEN 0 ELSE Least(holding)

ResolvedLimit(config, f) ==
    LET i == ResolvedRepo(config, f) IN
    IF i # 0 /\ config.repos[i].loc.has_limit THEN config.repos[i].loc.limit
    ELSE IF config.defaults.has_limit THEN config.defaults.limit
    ELSE DEFAULT_LOC_LIMIT

ResolvedExtensions(config, f) ==
    LET i == ResolvedRepo(config, f) IN
    IF i # 0 /\ config.repos[i].loc.has_extensions THEN config.repos[i].loc.extensions
    ELSE IF config.defaults.has_extensions THEN config.defaults.extensions
    ELSE DEFAULT_LOC_EXTENSIONS

ResolvedExclude(config, f) ==
    LET i == ResolvedRepo(config, f) IN
    IF i # 0 THEN config.repos[i].loc.exclude ELSE <<>>

\* f relative to the version-control root, f itself when no root is found.
RelativeToRoot(f) ==
    IF worktree.git_ok /\ UnderRoot(f, GIT_ROOT) /\ f # GIT_ROOT
    THEN SubSeq(f, Len(GIT_ROOT) + 2, Len(f)) ELSE f

NonBlankCount(f) ==
    LET file == FileAt(worktree, f) IN
    IF ~file.readable THEN 0
    ELSE Cardinality({ k \in 1..Len(file.lines) : file.lines[k] = "code" })

Excluded(config, f) ==
    \E k \in 1..Len(ResolvedExclude(config, f)) :
        fnmatch(RelativeToRoot(f), ResolvedExclude(config, f)[k])

Reported(f) == \E v \in outcome.violations : v.file_path = f

\* C5: when the stop hook evaluates the ChangeSet, an existing file is reported
\* iff its extension is eligible under the resolved rule (or the defaults), its
\* path relative to the version-control root (absolute when there is none)
\* matches no exclusion pattern of the rule, and its non-blank line count is
\* strictly greater than the resolved limit.
C5_ReportedIffEligibleAndOver ==
    (StopRan /\ outcome.stage = "end")
    => \A f \in outcome.modified :
         FileAt(worktree, f).exists
         => (Reported(f)
             <=> /\ suffix(f) \in ResolvedExtensions(StopDoc, f)
                 /\ ~Excluded(StopDoc, f)
                 /\ NonBlankCount(f) > ResolvedLimit(StopDoc, f))

\* C5 witness: one file over its limit is reported while another eligible,
\* non-excluded file with exactly `limit` non-blank lines is not, and a third
\* over its limit is left out because an exclusion pattern or its extension
\* rules it out.
C5_Witness ==
    /\ StopRan /\ outcome.stage = "end"
    /\ \E f, g, h \in outcome.modified :
         /\ Reported(f)
         /\ FileAt(worktree, g).exists /\ ~Reported(g)
         /\ suffix(g) \in ResolvedExtensions(StopDoc, g)
         /\ ~Excluded(StopDoc, g)
         /\ NonBlankCount(g) = ResolvedLimit(StopDoc, g)
         /\ FileAt(worktree, h).exists /\ ~Reported(h)
         /\ NonBlankCount(h) > ResolvedLimit(StopDoc, h)

\* The file the pre-tool-use hook reads.
PreDoc ==
    IF environ.FROZENGATES_CONFIG THEN config_files.override ELSE config_files.user

\* A configuration is loaded: the file exists, parses and is not empty.
PreConfigLoaded ==
    /\ environ.HAS_YAML
    /\ PreDoc.kind \in {"list", "mapping"}
    /\ Truthy(PreDoc)

\* Some frozen rule of doc matches the event's path.
SomeRuleFires(doc) ==
    /\ doc.kind = "mapping" /\ doc.repos_kind = "mapping"
    /\ \E i \in 1..Len(doc.repos) : RuleFires(doc.repos[i], NormCandidate)

\* C4 (as claimed): the pre-tool-use hook ends with exit code 2 and the block
\* object on standard output iff the tool is Write or Edit, the path is
\* non-empty, a configuration is loaded and the path matches a frozen rule; in
\* every other case it ends with exit code 0 and prints nothing.
C4_BlockIffFrozenElseAllow ==
    PreRan
    => LET frozen == /\ hook_input.kind = "object"
                     /\ hook_input.tool_name \in {"Write", "Edit"}
                     /\ hook_input.tool_input_kind = "object"
                     /\ hook_input.file_path # <<>>
                     /\ PreConfigLoaded
                     /\ SomeRuleFires(PreDoc)
       IN  IF frozen THEN outcome.exit_code = 2 /\ outcome.stdout = "block"
           ELSE outcome.exit_code = 0 /\ outcome.stdout = ""

\* C6 (as claimed): no run of either hook ends in an uncaught crash: the
\* pre-tool-use hook ends with exit code 0 or 2, the stop hook with 0 or 2 (1
\* only when the YAML dependency is missing), and a non-zero block exit comes
\* only from a policy violation.
C6_NeverCrashes ==
    (PreRan \/ StopRan)
    => /\ ~outcome.crashed
       /\ \/ outcome.exit_code = 0
          \/ outcome.exit_code = 2 /\ (outcome.match.found \/ outcome.violations # {})
          \/ outcome.exit_code = 1 /\ StopRan /\ ~environ.HAS_YAML

\* What the host sees of a run: exit code, crash, standard output, violations.
Observable(o) == <<o.exit_code, o.crashed, o.stdout, o.violations>>

\* C9 (as claimed): in both hooks, when a project-scoped and a user-scoped
\* configuration file both exist (here: both well-formed mappings), the run is
\* the one the project file alone would give; the user file counts only
\* without a project file; with neither, the hook exits 0 with no output.
C9_ProjectScopeWins ==
    LET both == /\ environ.CLAUDE_PROJECT_DIR /\ ~environ.FROZENGATES_CONFIG
                /\ config_files.project.kind = "mapping"
                /\ config_files.project.repos_kind # "null"
                /\ config_files.user.kind = "mapping"
                /\ config_files.user.repos_kind # "null"
        neither == /\ ~environ.FROZENGATES_CONFIG
                   /\ config_files.project.kind = "absent"
                   /\ config_files.user.kind = "absent"
        project_only == [config_files EXCEPT !.user = config_files.project]
    IN  /\ (PreRan /\ both)
           => Observable(outcome) = Observable(pre_main(hook_input, project_only, environ))
        /\ (StopRan /\ both)
           => Observable(outcome)
              = Observable(stop_main(hook_input, project_only, environ, transcripts, worktree))
        /\ ((PreRan \/ StopRan) /\ neither /\ environ.HAS_YAML /\ ~outcome.crashed)
           => outcome.exit_code = 0 /\ outcome.stdout = "" /\ outcome.violations = {}

====
